---- MODULE Spec2Model ----
(***************************************************************************)
(* Model of the XML-RPC notebook server (src/server.py) and of the calls   *)
(* its clients make (src/client.py).                                       *)
(*                                                                         *)
(* The backing file db.xml is a sequence of markup tokens, written by      *)
(* ElementTree's serializer and read back by its parser; the handlers are  *)
(* translated statement by statement from server.py.                       *)
(***************************************************************************)
EXTENDS Integers, Sequences, FiniteSets, TLC

(* ------------------------------ bounds --------------------------------- *)

NumClients == 2          \* callers that may have a request outstanding
MaxPageId  == 2          \* page ids the search API may answer with
MaxResults == 2          \* length of the search result list of one answer

Clients == 1..NumClients
PageIds == 1..MaxPageId

\* Topic strings callers send: two that differ only by case, and the empty one.
Topics == {"Rust", "rust", ""}

(* --------------------------- values ------------------------------------ *)

\* Python's None / an absent optional value; a present one is <<v>>.
None == <<>>
Some(v) == <<v>>

\* f"https://en.wikipedia.org/?curid={page_id}"
WikiUrl(page_id) == [base |-> "https://en.wikipedia.org/?curid=", pageid |-> page_id]

Urls == {WikiUrl(p) : p \in PageIds}

\* An ElementTree element: tag, the 'name' attribute (optional), text
\* (optional) and the child elements in document order.
Element(tag, name, text, children) ==
    [tag |-> tag, name |-> name, text |-> text, children |-> children]

\* ET.Element("data")
NewRoot == Element("data", None, None, <<>>)

(* ------------------- serializer and parser of db.xml ------------------- *)

Tok(k, tag, name, text) == [k |-> k, tag |-> tag, name |-> name, text |-> text]

RECURSIVE Serialize(_)
RECURSIVE SerializeAll(_)

\* ElementTree's _serialize_xml: "<tag attrs", then either ">" text children
\* "</tag>" when the element has text or children, or the short form " />".
Serialize(e) ==
    IF e.text # None \/ Len(e.children) > 0
    THEN <<Tok("open", e.tag, e.name, None)>>
         \o (IF e.text # None THEN <<Tok("text", "", None, e.text)>> ELSE <<>>)
         \o SerializeAll(e.children)
         \o <<Tok("close", e.tag, None, None)>>
    ELSE <<Tok("empty", e.tag, e.name, None)>>

SerializeAll(es) ==
    IF es = <<>> THEN <<>> ELSE Serialize(Head(es)) \o SerializeAll(Tail(es))

\* The backing file: whether it exists, and its content.
File(exists, bytes) == [exists |-> exists, bytes |-> bytes]

AbsentFile == File(FALSE, <<>>)
BlankFile  == File(TRUE, <<>>)

\* The parser's state: the stack of open elements, the finished root, and
\* the first error met.
PState(stack, root, err) == [stack |-> stack, root |-> root, err |-> err]

AppendChild(parent, child) ==
    [parent EXCEPT !.children = Append(@, child)]

\* One token fed to the parser.
FeedToken(st, tok) ==
    LET n == Len(st.stack)
        attach(e) ==
            IF n = 0
            THEN PState(<<>>, Some(e), "")
            ELSE PState([st.stack EXCEPT ![n] = AppendChild(@, e)], st.root, "")
    IN  IF st.err # "" THEN st
        ELSE IF st.root # None THEN PState(st.stack, st.root, "junk after document element")
        ELSE CASE tok.k = "open" ->
                    PState(Append(st.stack, Element(tok.tag, tok.name, None, <<>>)), None, "")
               [] tok.k = "text" ->
                    IF n = 0 THEN PState(st.stack, st.root, "syntax error")
                    ELSE PState([st.stack EXCEPT ![n].text = tok.text], None, "")
               [] tok.k = "empty" ->
                    attach(Element(tok.tag, tok.name, None, <<>>))
               [] OTHER ->
                    IF n = 0 \/ st.stack[IF n = 0 THEN 1 ELSE n].tag # tok.tag
                    THEN PState(st.stack, st.root, "mismatched tag")
                    ELSE LET e == st.stack[n]
                             rest == SubSeq(st.stack, 1, n - 1)
                         IN  IF n = 1 THEN PState(<<>>, Some(e), "")
                             ELSE PState([rest EXCEPT ![n - 1] = AppendChild(@, e)], None, "")

RECURSIVE Feed(_, _, _)
Feed(bytes, i, st) ==
    IF i > Len(bytes) THEN st ELSE Feed(bytes, i + 1, FeedToken(st, bytes[i]))

\* The result of a call that may raise: the exception's class ("" when the
\* call returned), its message, and the value returned.
Returned(v) == [raised |-> "", msg |-> "", value |-> v]
Raised(cls, msg) == [raised |-> cls, msg |-> msg, value |-> None]

\* ET.parse('db.xml'): FileNotFoundError when the file is absent, ParseError
\* when the content is not one complete element, the tree otherwise.
ETParse(f) ==
    IF ~f.exists
    THEN Raised("FileNotFoundError", "[Errno 2] No such file or directory: 'db.xml'")
    ELSE LET st == Feed(f.bytes, 1, PState(<<>>, None, ""))
         IN  IF st.err # "" THEN Raised("ParseError", st.err)
             ELSE IF st.root = None THEN Raised("ParseError", "no element found")
             ELSE Returned(st.root)      \* st.root is Some(the root element)

\* tree.write('db.xml'): opening the file for writing fails when it may not be
\* written; otherwise the file holds the serialized tree.
ETWrite(f, writable, root) ==
    IF ~writable
    THEN [raised |-> "PermissionError", msg |-> "[Errno 13] Permission denied: 'db.xml'", value |-> Some(f)]
    ELSE Returned(Some(File(TRUE, Serialize(root))))

(* --------------------------- server.py --------------------------------- *)

\* A variant of init_db_xml that writes the bare root whatever db.xml holds.
init_db_xml_AlwaysFresh(f, writable) ==
    LET w == ETWrite(f, writable, NewRoot)
    IN  [raised |-> w.raised, file |-> w.value[1]]

\* init_db_xml, lines 8-22: parse db.xml; only ParseError is handled, by
\* writing a document holding the bare root.  Yields the exception that left
\* the function ("" when it returned) and the file afterwards.
init_db_xml(f, writable) ==
    LET p == ETParse(f)
    IN  IF p.raised = "" THEN [raised |-> "", file |-> f]
        ELSE IF p.raised = "ParseError"
        THEN LET w == ETWrite(f, writable, NewRoot)
             IN  [raised |-> w.raised, file |-> w.value[1]]
        ELSE [raised |-> p.raised, file |-> f]

\* What the search API call did: the exception raised on the way ("" when
\* none) and the page ids of search_results["query"]["search"].
Answer(fault, search) == [fault |-> fault, search |-> search]

SearchLists ==
    UNION {[1..n -> PageIds] : n \in 0..MaxResults}

\* requests.get may raise (no response), raise_for_status raises on an error
\* status (the body of such a response may still hold a result list), and
\* response.json() raises on a body that is not JSON.
Answers ==
    {Answer(x, <<>>) : x \in {"ConnectionError", "JSONDecodeError"}}
    \cup {Answer(x, s) : x \in {"HTTPError", ""}, s \in SearchLists}

\* A variant of query_wikipedia without line 42 (raise_for_status): the body
\* of an error response is used like that of a good one.
query_wikipedia_NoRaiseForStatus(a) ==
    IF a.fault \in {"ConnectionError", "JSONDecodeError"} THEN None
    ELSE IF Len(a.search) > 0 THEN Some(WikiUrl(a.search[1]))
    ELSE None

\* query_wikipedia, lines 27-59: the URL of the first search result; None
\* when the list is empty or anything raised.
query_wikipedia(a) ==
    IF a.fault # "" THEN None
    ELSE IF Len(a.search) > 0 THEN Some(WikiUrl(a.search[1]))
    ELSE None

\* The strings add_topic_with_wiki_link returns, as the pieces of the f-string.
NotFoundMsg(topic) == <<"No Wikipedia article found for topic '", topic, "'.">>
AddedMsg(topic)    == <<"Wikipedia link added/updated for topic '", topic, "'.">>
ErrorMsg(e)        == <<"An error occurred while updating the XML database: ", e>>

\* A variant of line 96 with one status for a created record and another for
\* a changed one.
StatusMsg_Distinguishes(created, topic) ==
    IF created THEN <<"Wikipedia link added for topic '", topic, "'.">>
    ELSE <<"Wikipedia link updated for topic '", topic, "'.">>

\* line 96: the status returned after the write, the same whether the topic
\* element was created at line 83 or found at line 81.
StatusMsg(created, topic) == AddedMsg(topic)

\* A variant of line 94 that writes only a tree the request has changed.
NeedsWrite_OnlyIfChanged(loaded, root) == loaded # root

\* line 94: tree.write is reached on every path through lines 81-92, whether
\* or not they changed the tree that was loaded.
NeedsWrite(loaded, root) == TRUE

\* A variant of the test at line 67 that lets a missing URL through.
LookupMissed_Never(wiki_url) == FALSE

\* line 67: if wiki_url is None, the handler returns before touching db.xml.
LookupMissed(wiki_url) == wiki_url = None

\* A variant of the search at line 81 that never finds the topic.
FindTopic_NeverFinds(root, topic) == 0

\* line 81: the index of the first 'topic' child of the root whose name
\* attribute equals the topic (0 when there is none).
FindTopic(root, topic) ==
    LET hits == {i \in 1..Len(root.children) :
                    /\ root.children[i].tag = "topic"
                    /\ root.children[i].name = Some(topic)}
    IN  IF hits = {} THEN 0 ELSE CHOOSE i \in hits : \A j \in hits : i <= j

\* A variant of the search at line 88 that never finds the link element.
FindWiki_NeverFinds(topic_element) == 0

\* line 88: the index of the first 'wikipedia' child of the topic element.
FindWiki(topic_element) ==
    LET hits == {i \in 1..Len(topic_element.children) :
                    topic_element.children[i].tag = "wikipedia"}
    IN  IF hits = {} THEN 0 ELSE CHOOSE i \in hits : \A j \in hits : i <= j

\* A variant of lines 88-92 that creates the link element without its text.
SetLink_NoText(topic_element, wiki_url) ==
    IF FindWiki(topic_element) = 0
    THEN AppendChild(topic_element, Element("wikipedia", None, None, <<>>))
    ELSE topic_element

\* A variant of lines 88-92 that leaves a link element it finds as it is.
SetLink_SkipIfPresent(topic_element, wiki_url) ==
    IF FindWiki(topic_element) = 0
    THEN AppendChild(topic_element, Element("wikipedia", None, wiki_url, <<>>))
    ELSE topic_element

\* lines 88-92: set the text of the topic's link element, creating it if needed.
SetLink(topic_element, wiki_url) ==
    LET w == FindWiki(topic_element)
    IN  IF w = 0
        THEN AppendChild(topic_element, Element("wikipedia", None, wiki_url, <<>>))
        ELSE [topic_element EXCEPT !.children[w].text = wiki_url]

\* A variant of line 83 that creates the topic element without its name.
Upsert_NoNameAttr(root, topic, wiki_url) ==
    LET t == FindTopic(root, topic)
    IN  IF t = 0
        THEN AppendChild(root, SetLink(Element("topic", None, None, <<>>), wiki_url))
        ELSE [root EXCEPT !.children[t] = SetLink(@, wiki_url)]

\* A variant of line 83 that puts a new topic element first.
Upsert_Prepends(root, topic, wiki_url) ==
    LET t == FindTopic(root, topic)
    IN  IF t = 0
        THEN [root EXCEPT !.children =
                 <<SetLink(Element("topic", Some(topic), None, <<>>), wiki_url)>> \o @]
        ELSE [root EXCEPT !.children[t] = SetLink(@, wiki_url)]

\* lines 81-92: the tree after the topic was looked up or appended and its
\* link set.
Upsert(root, topic, wiki_url) ==
    LET t == FindTopic(root, topic)
    IN  IF t = 0
        THEN AppendChild(root, SetLink(Element("topic", Some(topic), None, <<>>), wiki_url))
        ELSE [root EXCEPT !.children[t] = SetLink(@, wiki_url)]

\* A variant of line 97 that handles ParseError only, as init_db_xml does.
HandlerCatches_OnlyParseError(cls) == cls = "ParseError"

\* line 97: except Exception catches every exception class.
HandlerCatches(cls) == TRUE

(* ----------------------------- state ----------------------------------- *)

VARIABLES
    file,       \* db.xml
    writable,   \* whether db.xml may be opened for writing
    srv,        \* the server process: "down", "bound", "serving", "crashed"
    h,          \* per caller: its request and the handler serving it
    failed      \* history: a caller was answered that db.xml could not be read,
                \*   and since then the process ran on and db.xml was left alone

vars == <<file, writable, srv, h, failed>>

\* A caller's request.  pc: "idle" (none), "pending" (sent, not yet taken by
\* the serving loop), "running" (handler entered), "looked" (lookup gave a
\* URL), "loaded" (db.xml parsed), "returned" (handler returned or raised).
\* before is db.xml as the handler found it on entry (None once something
\* other than a handler has changed the file since); fault is the exception
\* the lookup raised and swallowed ("" when none); wrote tells that the
\* handler has opened db.xml and written to it.
Idle ==
    [pc |-> "idle", topic |-> "", fault |-> "", wiki_url |-> None,
     tree |-> None, before |-> None, wrote |-> FALSE, result |-> None]

InFlight(r) == r.pc \in {"running", "looked", "loaded", "returned"}

\* Files db.xml may hold before the server is first started: no file, a
\* zero-byte file, a document cut short, an empty store, and a store of the
\* documented format (one topic with its link, one without a link).
LinkElement(text) == Element("wikipedia", None, text, <<>>)
TopicElement(name, links) == Element("topic", Some(name), None, links)
Store(topics) == File(TRUE, Serialize(Element("data", None, None, topics)))

TruncatedFile ==
    File(TRUE, <<Tok("open", "data", None, None), Tok("open", "topic", Some("Rust"), None)>>)

PopulatedStore ==
    Store(<<TopicElement("Rust", <<LinkElement(Some(WikiUrl(1)))>>), TopicElement("rust", <<>>)>>)

InitialFiles == {AbsentFile, BlankFile, TruncatedFile, Store(<<>>), PopulatedStore}

Init ==
    /\ file \in InitialFiles
    /\ writable = TRUE
    /\ srv = "down"
    /\ h = [c \in Clients |-> Idle]
    /\ failed = FALSE

(* ---------------------------- the server -------------------------------- *)

\* start_server, line 109: the process starts and binds port 8000.
Start ==
    /\ srv \in {"down", "crashed"}
    /\ srv' = "bound"
    /\ UNCHANGED <<file, writable, h, failed>>

\* start_server, line 119: init_db_xml(); an exception leaving it ends the
\* process, otherwise serve_forever is entered.
InitDb ==
    /\ srv = "bound"
    /\ LET r == init_db_xml(file, writable)
       IN  /\ file' = r.file
           /\ srv' = IF r.raised = "" THEN "serving" ELSE "crashed"
    /\ failed' = FALSE
    /\ UNCHANGED <<writable, h>>

\* The process is stopped; requests outstanding at that time are dropped.
Stop ==
    /\ srv \in {"bound", "serving"}
    /\ srv' = "down"
    /\ h' = [c \in Clients |-> Idle]
    /\ failed' = FALSE
    /\ UNCHANGED <<file, writable>>

\* client.py line 23: a caller sends add_topic_with_wiki_link(topic).
Call(c, topic) ==
    /\ srv \in {"bound", "serving"}
    /\ h[c].pc = "idle"
    /\ h' = [h EXCEPT ![c].pc = "pending", ![c].topic = topic]
    /\ UNCHANGED <<file, writable, srv, failed>>

\* A variant of the serving loop that hands every request to its own thread.
CanDispatch_Threaded(hh, c) == TRUE

\* serve_forever of SimpleXMLRPCServer (no threading mix-in): a request is
\* taken only when no handler is in progress.
CanDispatch(hh, c) == \A d \in Clients \ {c} : ~InFlight(hh[d])

Dispatch(c) ==
    /\ srv = "serving"
    /\ h[c].pc = "pending"
    /\ CanDispatch(h, c)
    /\ h' = [h EXCEPT ![c].pc = "running", ![c].before = Some(file)]
    /\ UNCHANGED <<file, writable, srv, failed>>

(* -------------------- add_topic_with_wiki_link -------------------------- *)

\* lines 66-71: the lookup, and the early return when it gave nothing.
Lookup(c, a) ==
    /\ h[c].pc = "running"
    /\ LET wiki_url == query_wikipedia(a)
       IN  h' = [h EXCEPT ![c].wiki_url = wiki_url,
                          ![c].fault = a.fault,
                          ![c].pc = IF LookupMissed(wiki_url) THEN "returned" ELSE "looked",
                          ![c].result = IF LookupMissed(wiki_url)
                                        THEN Some(Returned(NotFoundMsg(h[c].topic)))
                                        ELSE None]
    /\ UNCHANGED <<file, writable, srv, failed>>

\* What the handler's try block makes of an exception raised inside it:
\* the error string when it is caught, the exception itself otherwise.
Handled(r) ==
    IF HandlerCatches(r.raised) THEN Returned(ErrorMsg(r.msg)) ELSE Raised(r.raised, r.msg)

\* lines 75-76: tree = ET.parse('db.xml').
Load(c) ==
    /\ h[c].pc = "looked"
    /\ LET p == ETParse(file)
       IN  h' = [h EXCEPT ![c].pc = IF p.raised = "" THEN "loaded" ELSE "returned",
                          ![c].tree = p.value,
                          ![c].result = IF p.raised = "" THEN None ELSE Some(Handled(p))]
    /\ UNCHANGED <<file, writable, srv, failed>>

\* lines 81-96: find or create the topic, set its link, write db.xml and
\* return the status string.
Save(c) ==
    /\ h[c].pc = "loaded"
    /\ LET loaded == h[c].tree[1]
           created == FindTopic(loaded, h[c].topic) = 0
           root == Upsert(loaded, h[c].topic, h[c].wiki_url)
           w == IF NeedsWrite(loaded, root) THEN ETWrite(file, writable, root)
                ELSE Returned(Some(file))
           ok == w.raised = ""
       IN  /\ file' = w.value[1]
           /\ h' = [h EXCEPT ![c].pc = "returned",
                             ![c].tree = Some(root),
                             ![c].wrote = NeedsWrite(loaded, root) /\ ok,
                             ![c].result = IF ok THEN Some(Returned(StatusMsg(created, h[c].topic)))
                                           ELSE Some(Handled(w))]
    /\ UNCHANGED <<writable, srv, failed>>

\* The handler returned the error string because db.xml could not be parsed.
ReadFailed(r) == r.pc = "returned" /\ r.wiki_url # None /\ r.tree = None

\* The result is marshalled and sent back; the caller may call again.
Respond(c) ==
    /\ h[c].pc = "returned"
    /\ h' = [h EXCEPT ![c] = Idle]
    /\ failed' = (failed \/ ReadFailed(h[c]))
    /\ UNCHANGED <<file, writable, srv>>

Next ==
    \/ Start
    \/ InitDb
    \/ Stop
    \/ \E c \in Clients, topic \in Topics : Call(c, topic)
    \/ \E c \in Clients : Dispatch(c)
    \/ \E c \in Clients, a \in Answers : Lookup(c, a)
    \/ \E c \in Clients : Load(c)
    \/ \E c \in Clients : Save(c)
    \/ \E c \in Clients : Respond(c)

Spec == Init /\ [][Next]_vars

(* ------------------- the backing file misbehaving ----------------------- *)

\* db.xml is removed, overwritten with a document cut short, or has its
\* permission to be written changed, by something other than the server.
Forgotten == [c \in Clients |-> [h[c] EXCEPT !.before = None]]

EnvRemove ==
    /\ file.exists
    /\ file' = AbsentFile
    /\ h' = Forgotten
    /\ failed' = FALSE
    /\ UNCHANGED <<writable, srv>>

EnvCorrupt ==
    /\ file # TruncatedFile
    /\ file' = TruncatedFile
    /\ h' = Forgotten
    /\ failed' = FALSE
    /\ UNCHANGED <<writable, srv>>

EnvChmod ==
    /\ writable' = ~writable
    /\ UNCHANGED <<file, srv, h, failed>>

FaultNext == Next \/ EnvRemove \/ EnvCorrupt \/ EnvChmod

FaultSpec == Init /\ [][FaultNext]_vars

(* ----------------------- a write that is cut short ----------------------- *)

\* line 94 when tree.write raises after db.xml was opened (and so emptied)
\* and n tokens of the document were written: the device is full, or a value
\* of the tree cannot be serialized.  The handler at line 97 returns the
\* error string; db.xml keeps the n tokens.
SaveCutShort(c, n) ==
    /\ h[c].pc = "loaded"
    /\ LET root == Upsert(h[c].tree[1], h[c].topic, h[c].wiki_url)
           bytes == Serialize(root)
           w == [raised |-> "OSError", msg |-> "[Errno 28] No space left on device",
                 value |-> Some(File(TRUE, SubSeq(bytes, 1, n)))]
       IN  /\ n < Len(bytes)
           /\ file' = w.value[1]
           /\ h' = [h EXCEPT ![c].pc = "returned",
                             ![c].tree = Some(root),
                             ![c].wrote = TRUE,
                             ![c].result = Some(Handled(w))]
    /\ UNCHANGED <<writable, srv, failed>>

\* The longest document the handlers can write: the root's two tags, and per
\* topic two tags and a link element of three tokens.
MaxTokens == 2 + 5 * (Cardinality(Topics) + 1)

CrashNext == Next \/ \E c \in Clients, n \in 0..MaxTokens : SaveCutShort(c, n)

CrashSpec == Init /\ [][CrashNext]_vars

(* ---------------- starting without a store of earlier runs --------------- *)

\* db.xml is absent, zero bytes long or the empty collection at the start.
EmptyInit == Init /\ file \in {AbsentFile, BlankFile, Store(<<>>)}

EmptySpec == EmptyInit /\ [][Next]_vars

(* -------------------------- reading the store --------------------------- *)

\* Whether db.xml holds a well-formed document.
WellFormed(f) == ETParse(f).raised = ""

\* The topic records of db.xml in document order (none when it does not parse).
Records(f) ==
    LET p == ETParse(f)
    IN  IF p.raised # "" THEN <<>>
        ELSE SelectSeq(p.value[1].children, LAMBDA e : e.tag = "topic")

\* The names of the records, and how many records carry a given name.
StoreNames(f) ==
    LET recs == Records(f) IN {recs[i].name : i \in 1..Len(recs)}
CountOf(f, topic) ==
    LET recs == Records(f) IN Cardinality({i \in 1..Len(recs) : recs[i].name = Some(topic)})

\* The link values a record carries, in document order.
LinksOf(rec) ==
    LET ws == SelectSeq(rec.children, LAMBDA e : e.tag = "wikipedia")
    IN  [i \in 1..Len(ws) |-> ws[i].text]

\* The record set of db.xml as (name, links) pairs.
RecordSet(f) ==
    LET recs == Records(f) IN {<<recs[i].name, LinksOf(recs[i])>> : i \in 1..Len(recs)}

\* db.xml after one more add_topic_with_wiki_link request for the topic, with
\* the lookup giving wiki_url (lines 75-94 run on file f).
AfterRequest(f, topic, wiki_url) ==
    ETWrite(f, TRUE, Upsert(ETParse(f).value[1], topic, wiki_url)).value[1]

\* The handler of caller c has returned, with the added/updated status.
HasReturned(c) == h[c].pc = "returned"
ReturnedAdded(c) == HasReturned(c) /\ h[c].result = Some(Returned(AddedMsg(h[c].topic)))

\* The handler of caller c wrote db.xml and returned a status, not the error
\* string.
Stored(c) ==
    /\ HasReturned(c)
    /\ h[c].wrote
    /\ h[c].result[1].raised = ""
    /\ h[c].result[1].value[1] # ErrorMsg("")[1]

\* Against db.xml as the handler of c found it: the request created the
\* record of its topic, or changed the link of the record it found.
Created(c) == h[c].before # None /\ CountOf(h[c].before[1], h[c].topic) = 0
Changed(c) ==
    /\ h[c].before # None
    /\ CountOf(h[c].before[1], h[c].topic) = 1
    /\ <<Some(h[c].topic), <<h[c].wiki_url>> >> \notin RecordSet(h[c].before[1])

\* The names of the records of db.xml in document order.
NameSeq(f) ==
    LET recs == Records(f) IN [i \in 1..Len(recs) |-> recs[i].name]

\* The text of a returned string is not empty.
NonEmptyString(msg) == \E i \in 1..Len(msg) : msg[i] # ""

(* ------------------------------ claims ---------------------------------- *)

\* C1: after any sequence of init_db_xml calls and add_topic_with_wiki_link
\* requests, db.xml holds at most one topic record per distinct name, names
\* being compared by exact (case-sensitive) equality.
C1_UniqueNames ==
    LET recs == Records(file)
    IN  \A i, j \in 1..Len(recs) : recs[i].name = recs[j].name => i = j

\* Reached: the store holds a record for every topic, "Rust" and "rust" apart.
C1_Witness ==
    /\ \A t \in Topics : CountOf(file, t) = 1
    /\ \E c \in Clients : ReturnedAdded(c)

\* C2 (as claimed): init_db_xml on an absent or not well-formed db.xml returns
\* without raising and leaves the empty collection, and an upsert that then
\* finds this collection succeeds and persists its record.
C2_InitRecovers ==
    [][ /\ (srv = "bound" /\ srv' \in {"serving", "crashed"} /\ ~WellFormed(file))
            => (srv' = "serving" /\ file' = Store(<<>>))
        /\ \A c \in Clients :
              (h[c].pc = "loaded" /\ h'[c].pc = "returned" /\ file = Store(<<>>))
                  => /\ h'[c].result = Some(Returned(AddedMsg(h[c].topic)))
                     /\ RecordSet(file') = {<<Some(h[c].topic), <<h[c].wiki_url>> >>}
      ]_vars

\* C3: init_db_xml on a well-formed db.xml returns and leaves the file, hence
\* every name and link, as it was (at every start of the server), and calling
\* it again right after a call changes nothing more.
C3_InitPreserves ==
    /\ [][(srv = "bound" /\ srv' \in {"serving", "crashed"} /\ WellFormed(file))
            => (srv' = "serving" /\ file' = file /\ RecordSet(file') = RecordSet(file))]_vars
    /\ [](LET r == init_db_xml(file, writable)
          IN  init_db_xml(r.file, writable) = r)

\* Reached: the server serves after init_db_xml ran on the populated store.
C3_Witness ==
    /\ srv = "serving"
    /\ file = PopulatedStore

\* C4: one request on the empty store whose lookup gives a link returns the
\* added/updated status and leaves exactly one record: that topic, that link.
C4_FirstUpsert ==
    \A c \in Clients :
        (HasReturned(c) /\ h[c].before = Some(Store(<<>>)) /\ h[c].wiki_url # None)
            => /\ h[c].result = Some(Returned(AddedMsg(h[c].topic)))
               /\ WellFormed(file)
               /\ Len(Records(file)) = 1
               /\ RecordSet(file) = {<<Some(h[c].topic), <<h[c].wiki_url>> >>}

C4_Witness ==
    \E c \in Clients :
        /\ ReturnedAdded(c)
        /\ h[c].before = Some(Store(<<>>))
        /\ h[c].topic = "Rust"
        /\ h[c].wiki_url = Some(WikiUrl(2))

\* C5: after a request has stored (topic, link), the same request once more
\* leaves db.xml equal to what the first left, with exactly one record for the
\* topic; a request that found its (topic, link) already stored left db.xml
\* as it found it.
C5_Idempotent ==
    \A c \in Clients :
        ReturnedAdded(c)
            => /\ AfterRequest(file, h[c].topic, h[c].wiki_url) = file
               /\ CountOf(file, h[c].topic) = 1
               /\ (AfterRequest(h[c].before[1], h[c].topic, h[c].wiki_url) = h[c].before[1]
                      => file = h[c].before[1])

\* Reached: a second request for a stored (topic, link) has returned.
C5_Witness ==
    \E c \in Clients :
        /\ ReturnedAdded(c)
        /\ h[c].topic = ""
        /\ Some(file) = h[c].before

\* C6: no successful upsert is lost: a step changes the names in the store
\* exactly by adding the topic of the request that returns added/updated in
\* that step (and the number of records by one exactly when that topic is
\* new), and every request that got a link and read the store returns that
\* status.
C6_NoLostUpsert ==
    [][LET done == {c \in Clients : h[c].pc = "loaded" /\ h'[c].pc = "returned"}
           added == {c \in done : h'[c].result = Some(Returned(AddedMsg(h[c].topic)))}
           names == StoreNames(file)
           new == {Some(h[c].topic) : c \in added} \ names
       IN  \/ (done = {} /\ file' = file)
           \/ /\ added = done
              /\ StoreNames(file') = names \cup {Some(h[c].topic) : c \in added}
              /\ Len(Records(file')) = Len(Records(file)) + Cardinality(new)
      ]_vars

\* Reached: the second of two distinct topics has been added to the store.
C6_Witness ==
    \E c \in Clients :
        /\ ReturnedAdded(c)
        /\ h[c].before # None
        /\ StoreNames(h[c].before[1]) = {Some("")}
        /\ StoreNames(file) = {Some(""), Some("rust")}
        /\ Len(Records(file)) = 2

\* C7: when the lookup gives nothing, the request returns the string that
\* names the topic and says no article was found, without having parsed
\* db.xml, and db.xml is as it was when the request started.
C7_MissLeavesStore ==
    \A c \in Clients :
        (HasReturned(c) /\ h[c].wiki_url = None)
            => /\ h[c].result = Some(Returned(NotFoundMsg(h[c].topic)))
               /\ h[c].result[1].value[1] = "No Wikipedia article found for topic '"
               /\ h[c].result[1].value[2] = h[c].topic
               /\ h[c].tree = None
               /\ h[c].before = Some(file)

C7_Witness ==
    \E c \in Clients :
        /\ HasReturned(c)
        /\ h[c].wiki_url = None
        /\ h[c].topic = "Rust"
        /\ StoreNames(file) = {Some("rust")}

\* C8: whatever the topic, the lookup outcome and the state of db.xml, a
\* request ends with a non-empty string returned and no exception raised, and
\* the serving loop takes the next pending request once no handler runs.
C8_AlwaysString ==
    /\ \A c \in Clients :
          HasReturned(c)
              => /\ h[c].result # None
                 /\ h[c].result[1].raised = ""
                 /\ NonEmptyString(h[c].result[1].value)
    /\ \A c \in Clients :
          (srv = "serving" /\ h[c].pc = "pending" /\ \A d \in Clients : ~InFlight(h[d]))
              => ENABLED Dispatch(c)

\* Reached: a request with a link returned the error string because db.xml,
\* well-formed, could not be written, after an earlier storage error.
C8_Witness ==
    \E c \in Clients :
        /\ HasReturned(c)
        /\ h[c].wiki_url # None
        /\ h[c].topic = ""
        /\ ~writable
        /\ WellFormed(file)
        /\ h[c].result = Some(Returned(ErrorMsg("[Errno 13] Permission denied: 'db.xml'")))

\* C9: at most one handler is in progress at any time (so no two are between
\* their load of db.xml and their write), and none is while init_db_xml is
\* still to run or the process is not serving.
C9_OneInFlight ==
    /\ Cardinality({c \in Clients : InFlight(h[c])}) <= 1
    /\ srv # "serving" => \A c \in Clients : ~InFlight(h[c])

\* Reached: a handler has loaded db.xml while another request waits.
C9_Witness ==
    \E c, d \in Clients :
        /\ h[c].pc = "loaded"
        /\ h[d].pc = "pending"
        /\ h[d].topic # h[c].topic

\* C10: when requests of several callers for one topic are outstanding
\* together, each of them that returns added/updated leaves db.xml
\* well-formed, with exactly one record for the topic, carrying the link of
\* that (latest) writer.
C10_SameTopicConcurrent ==
    \A c \in Clients :
        ReturnedAdded(c)
            => /\ WellFormed(file)
               /\ CountOf(file, h[c].topic) = 1
               /\ <<Some(h[c].topic), <<h[c].wiki_url>> >> \in RecordSet(file)

\* Reached: with another caller's request for the same topic outstanding, a
\* caller's request overwrote the link stored for the topic by an earlier one.
C10_Witness ==
    \E c, d \in Clients :
        /\ ReturnedAdded(c)
        /\ h[c].topic = ""
        /\ h[d].pc = "pending"
        /\ h[d].topic = ""
        /\ <<Some(""), <<Some(WikiUrl(1))>> >> \in RecordSet(h[c].before[1])
        /\ <<Some(""), <<Some(WikiUrl(2))>> >> \in RecordSet(file)

\* C11 (as claimed): a request that changed an existing record returns a
\* status different from the one a request that creates the record returns.
C11_Distinguishes ==
    \A c \in Clients :
        (Stored(c) /\ Changed(c))
            => h[c].result # Some(Returned(StatusMsg(TRUE, h[c].topic)))

\* C11 (amended): a request that created a record and a request that changed
\* the link of an existing record return the same status, the one string
\* "Wikipedia link added/updated for topic '...'." naming the topic.
C11_OneStatus ==
    \A c \in Clients :
        (Stored(c) /\ (Created(c) \/ Changed(c)))
            => /\ h[c].result = Some(Returned(AddedMsg(h[c].topic)))
               /\ h[c].result[1].value[1] = "Wikipedia link added/updated for topic '"

\* Reached: a request that changed the link of "Rust" returned that status.
C11_Witness ==
    \E c \in Clients :
        /\ Stored(c)
        /\ Changed(c)
        /\ h[c].topic = "Rust"
        /\ h[c].result = Some(Returned(AddedMsg("Rust")))

\* C12 (as claimed): a handler that wrote db.xml had changed the collection.
C12_WritesOnlyChanges ==
    \A c \in Clients :
        (HasReturned(c) /\ h[c].wrote /\ h[c].before # None)
            => Some(file) # h[c].before

\* C12 (amended): every request that got a link and parsed db.xml writes
\* db.xml, also when the topic is already stored with exactly that link; the
\* document written is then equal to the one read.
C12_AlwaysWrites ==
    \A c \in Clients :
        (HasReturned(c) /\ h[c].tree # None)
            => /\ h[c].wrote
               /\ ReturnedAdded(c)
               /\ (~Created(c) /\ ~Changed(c)) => Some(file) = h[c].before

\* Reached: a request for a topic stored with that very link has written.
C12_Witness ==
    \E c \in Clients :
        /\ ReturnedAdded(c)
        /\ h[c].wrote
        /\ h[c].topic = "Rust"
        /\ h[c].wiki_url = Some(WikiUrl(2))
        /\ Some(file) = h[c].before

\* C13 (as claimed): after a request that found a well-formed db.xml, also
\* one that failed in the middle, db.xml is well-formed: the document from
\* before the request or the complete document after it.
C13_NoPartialDocument ==
    \A c \in Clients :
        (HasReturned(c) /\ h[c].before # None /\ WellFormed(h[c].before[1]))
            => /\ WellFormed(file)
               /\ \/ file = h[c].before[1]
                  \/ /\ h[c].wiki_url # None
                     /\ file = AfterRequest(h[c].before[1], h[c].topic, h[c].wiki_url)

\* C14 (as claimed): once a caller was answered that db.xml could not be
\* read, the store is re-initialized on next use: a later request whose
\* lookup gives a link, db.xml being writable, returns added/updated.
C14_RecoversOnNextUse ==
    \A c \in Clients :
        (failed /\ writable /\ HasReturned(c) /\ h[c].wiki_url # None)
            => ReturnedAdded(c)

\* C15: a request whose lookup raised (no response, an error status, a body
\* that is not JSON) returns what a miss returns, the no-article string for
\* its topic, without having parsed db.xml, and db.xml is as it was.
C15_FaultLikeMiss ==
    \A c \in Clients :
        (HasReturned(c) /\ h[c].fault # "")
            => /\ h[c].wiki_url = None
               /\ h[c].result = Some(Returned(NotFoundMsg(h[c].topic)))
               /\ h[c].tree = None
               /\ ~h[c].wrote
               /\ h[c].before = Some(file)

\* Reached: an error status whose body held a result list was taken as a miss.
C15_Witness ==
    \E c \in Clients :
        /\ HasReturned(c)
        /\ h[c].fault = "HTTPError"
        /\ h[c].topic = "rust"
        /\ StoreNames(file) = {Some("Rust")}

\* C16: after every request that returns added/updated, the topic's record
\* carries the link of that request's lookup, whatever link it carried
\* before, and the records of all other topics are as they were.
C16_AlwaysUpdate ==
    \A c \in Clients :
        (ReturnedAdded(c) /\ h[c].before # None)
            => LET rb == RecordSet(h[c].before[1])
                   rf == RecordSet(file)
                   me == Some(h[c].topic)
               IN  /\ {r \in rf : r[1] = me} = {<<me, <<h[c].wiki_url>> >>}
                   /\ {r \in rf : r[1] # me} = {r \in rb : r[1] # me}

\* Reached: a link was overwritten next to another topic's record.
C16_Witness ==
    \E c \in Clients :
        /\ ReturnedAdded(c)
        /\ h[c].topic = ""
        /\ h[c].before # None
        /\ RecordSet(h[c].before[1]) =
              {<<Some(""), <<Some(WikiUrl(2))>> >>, <<Some("rust"), <<Some(WikiUrl(2))>> >>}
        /\ RecordSet(file) =
              {<<Some(""), <<Some(WikiUrl(1))>> >>, <<Some("rust"), <<Some(WikiUrl(2))>> >>}

\* C17 (as claimed): every record in the store has a non-empty name.
C17_NonEmptyNames ==
    LET recs == Records(file)
    IN  \A i \in 1..Len(recs) : recs[i].name # None /\ recs[i].name # Some("")

\* C17 (amended): every record has a name attribute, whose value is the topic
\* string of the request that created it (or was stored before the start);
\* the value is the empty string when that topic was: after a request that
\* returns added/updated, the empty topic included, exactly one record
\* carries the topic as its name.
C17_NamesAreTopics ==
    LET recs == Records(file)
    IN  /\ \A i \in 1..Len(recs) : recs[i].name # None /\ recs[i].name[1] \in Topics
        /\ \A c \in Clients : ReturnedAdded(c) => CountOf(file, h[c].topic) = 1

\* Reached: a request with the empty topic has stored a record named "".
C17_Witness ==
    \E c \in Clients :
        /\ ReturnedAdded(c)
        /\ Created(c)
        /\ h[c].topic = ""
        /\ NameSeq(file) = <<Some("Rust"), Some("")>>

\* C18: a request that returns added/updated for a new topic appends its
\* record after all the records there were; one for a stored topic leaves
\* the sequence of records' names as it was.
C18_InsertionOrder ==
    \A c \in Clients :
        (ReturnedAdded(c) /\ h[c].before # None)
            => LET nb == NameSeq(h[c].before[1])
                   nf == NameSeq(file)
               IN  IF Created(c) THEN nf = Append(nb, Some(h[c].topic)) ELSE nf = nb

\* Reached: a third topic was appended; a link in the middle was changed.
C18_Witness ==
    \E c \in Clients :
        /\ ReturnedAdded(c)
        /\ h[c].before # None
        /\ NameSeq(h[c].before[1]) = <<Some("rust"), Some("")>>
        /\ NameSeq(file) = <<Some("rust"), Some(""), Some("Rust")>>

\* C19: starting from an absent, zero-byte or empty db.xml, every record of
\* every db.xml reached carries exactly one link value, a URL the lookup
\* gave, and no step removes a record from the store.
C19_OneLinkKept ==
    /\ [](LET recs == Records(file)
          IN  \A i \in 1..Len(recs) :
                 \E u \in Urls : LinksOf(recs[i]) = <<Some(u)>>)
    /\ [][file' = file \/ StoreNames(file) \subseteq StoreNames(file')]_vars

\* Reached: three records stored, the link of one of them set a second time.
C19_Witness ==
    \E c \in Clients :
        /\ ReturnedAdded(c)
        /\ Changed(c)
        /\ Len(Records(file)) = 3

====
